---- MODULE Spec2Model ----
(***************************************************************************)
(* Model of pdf2docx/layout/Layout.py: the Layout object of one page       *)
(* (width, height, blocks, rects, margin), its parsing pipeline and the    *)
(* assembly of pages into one output document.                             *)
(*                                                                         *)
(* Units.  Page and bounding-box coordinates are whole points; the inputs  *)
(* are even numbers so that the halving of the vertical margins is exact.  *)
(* before_space is counted in quarter points (1 = 0.25 pt), so that        *)
(* round(before_space/2.0, 1) has to round.  Paragraph spacing values of   *)
(* the output document are counted in tenths of a point (10 = Pt(1.0)).    *)
(*                                                                         *)
(* Blocks, Rectangles and TablesConstructor are collaborators of Layout;   *)
(* their operators here follow the description of what they do.  A call    *)
(* that raises (a margin of None unpacked) sets err and ends the run.      *)
(***************************************************************************)
EXTENDS Integers, Sequences, FiniteSets, TLC

\* ------------------------------------------------------------------ bounds
MaxBlocks == 2
MaxRects == 1
MaxPages == 2

\* --------------------------------------------------------------- constants
\* ITP, "1 Inch = 72 pt"
ITP == 72
\* DM, the distance tolerance of common.utils; page_margin uses DM*10.0
DM == 1

\* margin is None
Unset == <<>>

\* ------------------------------------------------------------------ inputs
Blk(k, x0, y0, x1, y1, bs, r, c) ==
    [kind |-> k, x0 |-> x0, y0 |-> y0, x1 |-> x1, y1 |-> y1,
     before_space |-> bs, num_rows |-> r, num_cols |-> c]

Rct(x0, y0, x1, y1) == [x0 |-> x0, y0 |-> y0, x1 |-> x1, y1 |-> y1]

\* the raw blocks a page is built from, in reading order
BlockPool ==
    << Blk("text",   40,  20, 200,  60,  0, 0, 0),
       Blk("text",  220,  20, 380,  60,  0, 0, 0),
       Blk("text",   10,  10,   4,   4,  0, 0, 0),
       Blk("text",  -20, 100, 420, 140,  0, 0, 0),
       Blk("table",  20, 160, 380, 220,  0, 2, 2),
       Blk("table",  20, 230, 380, 260,  3, 0, 2),
       Blk("table",  20, 250, 380, 290, -8, 1, 1) >>

RectPool ==
    << Rct(30, 10, 210, 70),
       Rct(6, 6, 6, 2) >>

PageSizes == { <<0, 0>>, <<100, 80>>, <<400, 300>> }

\* the pages that are assembled into one document: the page sizes and the
\* blocks of the pool they draw from
DocSizes == { <<100, 80>>, <<400, 300>> }

DocPool == << BlockPool[1], BlockPool[4], BlockPool[5], BlockPool[6], BlockPool[7] >>

Increasing(s) == \A i \in 1..(Len(s) - 1) : s[i] < s[i + 1]

IndexLists(n, m) ==
    { s \in UNION { [1..k -> 1..n] : k \in 0..m } : Increasing(s) }

\* raw.get('blocks', []): any selection of the pool, kept in reading order
RawBlocks ==
    { [i \in 1..Len(s) |-> BlockPool[s[i]]] :
        s \in IndexLists(Len(BlockPool), MaxBlocks) }

DocRawBlocks ==
    { [i \in 1..Len(s) |-> DocPool[s[i]]] :
        s \in IndexLists(Len(DocPool), MaxBlocks) }

VARIABLES width, height, blocks, rects, margin,
          doc, pc, err,
          last, twice, before, trace, implicit_x, spacing_bbox, made

vars == <<width, height, blocks, rects, margin, doc, pc, err,
            last, twice, before, trace, implicit_x, spacing_bbox, made>>

\* ----------------------------------------------------------------- helpers
Min2(a, b) == IF a <= b THEN a ELSE b
Max2(a, b) == IF a >= b THEN a ELSE b
SetMin(S) == CHOOSE x \in S : \A y \in S : x <= y
SetMax(S) == CHOOSE x \in S : \A y \in S : x >= y
Range(s) == { s[i] : i \in 1..Len(s) }

\* ------------------------------------------------- Blocks and Rectangles
WellFormed(b) == b.x0 < b.x1 /\ b.y0 < b.y1

RECURSIVE Dedup(_, _)
\* drop inverted or empty boxes and boxes seen before, keeping the order
Dedup(s, seen) ==
    IF s = <<>> THEN <<>>
    ELSE IF WellFormed(Head(s)) /\ Head(s) \notin seen
         THEN <<Head(s)>> \o Dedup(Tail(s), seen \cup {Head(s)})
         ELSE Dedup(Tail(s), seen)

\* Blocks.clean(page_bbox)
BlocksClean(bs, page_bbox) == Dedup(bs, {})

\* Rectangles.clean(page_bbox)
RectsClean(rs, page_bbox) == Dedup(rs, {})

Inside(b, r) == r.x0 <= b.x0 /\ b.x1 <= r.x1 /\ r.y0 <= b.y0 /\ b.y1 <= r.y1

Bordered(b, rs) == b.kind = "text" /\ \E r \in Range(rs) : Inside(b, r)

RECURSIVE BorderedRun(_, _)
\* length of the leading run of text blocks lying inside a border rectangle
BorderedRun(bs, rs) ==
    IF bs = <<>> \/ ~Bordered(Head(bs), rs) THEN 0
    ELSE 1 + BorderedRun(Tail(bs), rs)

\* one table block in place of a run of blocks
TableOf(run, r, c) ==
    Blk("table",
        SetMin({ b.x0 : b \in Range(run) }), SetMin({ b.y0 : b \in Range(run) }),
        SetMax({ b.x1 : b \in Range(run) }), SetMax({ b.y1 : b \in Range(run) }),
        0, r, c)

RECURSIVE explicit_tables(_, _)
\* TablesConstructor.explicit_tables(): each run of text blocks enclosed by
\* border rectangles is replaced, in place, by one table block
explicit_tables(bs, rs) ==
    IF bs = <<>> THEN <<>>
    ELSE LET k == BorderedRun(bs, rs) IN
         IF k = 0 THEN <<Head(bs)>> \o explicit_tables(Tail(bs), rs)
         ELSE <<TableOf(SubSeq(bs, 1, k), k, 1)>>
              \o explicit_tables(SubSeq(bs, k + 1, Len(bs)), rs)

InSpan(b, X0, X1) == b.kind = "text" /\ X0 <= b.x0 /\ b.x1 <= X1

SameBand(a, b) == a.y0 < b.y1 /\ b.y0 < a.y1 /\ a.x1 <= b.x0

RECURSIVE AlignedRun(_, _, _)
\* length of the leading run of text blocks that share one vertical band
\* and follow each other from left to right within [X0, X1]
AlignedRun(bs, X0, X1) ==
    IF bs = <<>> \/ ~InSpan(Head(bs), X0, X1) THEN 0
    ELSE IF Len(bs) >= 2 /\ SameBand(bs[1], bs[2])
         THEN 1 + AlignedRun(Tail(bs), X0, X1)
         ELSE 1

RECURSIVE implicit_tables(_, _, _)
\* TablesConstructor.implicit_tables(X0, X1): a run of two or more aligned
\* text blocks becomes one table block of one row and one column per block
implicit_tables(bs, X0, X1) ==
    IF bs = <<>> THEN <<>>
    ELSE LET k == AlignedRun(bs, X0, X1) IN
         IF k < 2 THEN <<Head(bs)>> \o implicit_tables(Tail(bs), X0, X1)
         ELSE <<TableOf(SubSeq(bs, 1, k), 1, k)>>
              \o implicit_tables(SubSeq(bs, k + 1, Len(bs)), X0, X1)

\* Blocks.parse_vertical_spacing(bbox): the space before a block is its
\* distance to the block above it, or to the top of the content box
vertical_spacing(bs, bbox) ==
    [i \in 1..Len(bs) |->
        [bs[i] EXCEPT !.before_space =
            4 * (bs[i].y0 - (IF i = 1 THEN bbox[2] ELSE bs[i - 1].y1))]]

\* ------------------------------------------------------------ Layout
\* page_margin without "right = min(right, left)"
page_margin_nosym(bs, rs, w, h) ==
    IF bs = <<>> /\ rs = <<>> THEN <<ITP, ITP, ITP, ITP>>
    ELSE LET list_bbox == { Rct(b.x0, b.y0, b.x1, b.y1) : b \in Range(bs) }
                          \cup Range(rs)
             left   == Max2(SetMin({ x.x0 : x \in list_bbox }), 0)
             x_max  == SetMax({ x.x1 : x \in list_bbox })
             right  == Max2(w - x_max - DM * 10, 0)
             top    == Max2(SetMin({ x.y0 : x \in list_bbox }), 0)
             bottom == Max2(h - SetMax({ x.y1 : x \in list_bbox }), 0)
         IN  << Min2(ITP, left), Min2(ITP, right),
                Min2(ITP, top \div 2), Min2(ITP, bottom \div 2) >>

\* page_margin without the early return: the extents of no box taken as 0
page_margin_nodefault(bs, rs, w, h) ==
    LET list_bbox == { Rct(b.x0, b.y0, b.x1, b.y1) : b \in Range(bs) }
                     \cup Range(rs)
        boxes  == IF list_bbox = {} THEN { Rct(0, 0, 0, 0) } ELSE list_bbox
        left   == Max2(SetMin({ x.x0 : x \in boxes }), 0)
        x_max  == SetMax({ x.x1 : x \in boxes })
        right  == Max2(Min2(w - x_max - DM * 10, left), 0)
        top    == Max2(SetMin({ x.y0 : x \in boxes }), 0)
        bottom == Max2(h - SetMax({ x.y1 : x \in boxes }), 0)
    IN  << Min2(ITP, left), Min2(ITP, right),
           Min2(ITP, top \div 2), Min2(ITP, bottom \div 2) >>

\* Layout.page_margin
page_margin(bs, rs, w, h) ==
    IF bs = <<>> /\ rs = <<>> THEN <<ITP, ITP, ITP, ITP>>
    ELSE LET list_bbox == { Rct(b.x0, b.y0, b.x1, b.y1) : b \in Range(bs) }
                          \cup Range(rs)
             left   == Max2(SetMin({ x.x0 : x \in list_bbox }), 0)
             x_max  == SetMax({ x.x1 : x \in list_bbox })
             right  == Max2(Min2(w - x_max - DM * 10, left), 0)
             top    == Max2(SetMin({ x.y0 : x \in list_bbox }), 0)
             bottom == Max2(h - SetMax({ x.y1 : x \in list_bbox }), 0)
         IN  << Min2(ITP, left), Min2(ITP, right),
                Min2(ITP, top \div 2), Min2(ITP, bottom \div 2) >>

\* Layout.bbox_raw
bbox_raw(m, w, h) ==
    IF m = Unset THEN <<0, 0, 0, 0>>
    ELSE <<m[1], m[3], w - m[2], h - m[4]>>

\* parse() with clean called after the table stages
StageOrder_cleanlate ==
    << "parse_explicit_tables", "parse_implicit_tables", "clean",
       "parse_text_format", "parse_vertical_spacing" >>

\* Layout.parse: the stages in the order parse() calls them
StageOrder ==
    << "clean", "parse_explicit_tables", "parse_implicit_tables",
       "parse_text_format", "parse_vertical_spacing" >>

\* parse() is at the call of the stage
AtStage(name) == pc \in 1..Len(StageOrder) /\ StageOrder[pc] = name

\* a stage runs when it is called directly or when parse() calls it
Called(name) == pc = 0 \/ AtStage(name)

\* where parse() stands after the stage at pc returned
Advance == IF pc = 0 \/ pc = Len(StageOrder) THEN 0 ELSE pc + 1

Finished == pc = Len(StageOrder)

\* the history of what ran: the stage log of the running parse() and the
\* last call made on the page
Logged(name) ==
    /\ trace' = IF pc = 0 THEN trace ELSE Append(trace, name)
    /\ last' = IF Finished THEN "parse" ELSE name

NoBefore == [margin |-> Unset, nb |-> 0, nr |-> 0]


\* clean with the margin computed before the blocks and rectangles are cleaned
clean_marginfirst(bs, rs, w, h) ==
    LET page_bbox == <<0, 0, w, h>>
    IN  [blocks |-> BlocksClean(bs, page_bbox), rects |-> RectsClean(rs, page_bbox),
         margin |-> page_margin(bs, rs, w, h)]

\* Layout.clean: clean the blocks and the rectangles, then compute the margin
\* of the clean layout
clean(bs, rs, w, h) ==
    LET page_bbox    == <<0, 0, w, h>>
        clean_blocks == BlocksClean(bs, page_bbox)
        clean_rects  == RectsClean(rs, page_bbox)
    IN  [blocks |-> clean_blocks, rects |-> clean_rects,
         margin |-> page_margin(clean_blocks, clean_rects, w, h)]

\* ------------------------------------------------------ output document
\* the section a new Document() starts with (Letter, one inch and 1.25 inch)
DefaultSection ==
    [page_width |-> 612, page_height |-> 792, left_margin |-> 90,
     right_margin |-> 90, top_margin |-> 72, bottom_margin |-> 72]

NewDocument == [sections |-> <<DefaultSection>>, body |-> <<>>]

\* doc.paragraphs
Paragraphs(d) == { i \in 1..Len(d.body) : d.body[i].type = "paragraph" }

\* round(before_space / 2.0, 1) in tenths of a point, before_space in
\* quarter points: 5*bs/4 rounded to the nearest integer, ties to even
RoundHalf(bs) ==
    LET n == 5 * bs
        q == n \div 4
        r == n % 4
    IN  IF r < 2 THEN q
        ELSE IF r > 2 THEN q + 1
        ELSE IF q % 2 = 0 THEN q ELSE q + 1

\* p = doc.add_paragraph(); block.make_docx(p, self.bbox_raw)
TextParagraph(sect, page, i) ==
    [type |-> "paragraph", sect |-> sect, page |-> page, block |-> i]

\* p = doc.add_paragraph(); pf = reset_paragraph_format(p); pf.... = Pt(...)
Filler(sect, page, sb, sa, ls) ==
    [type |-> "paragraph", sect |-> sect, page |-> page, block |-> 0,
     space_before |-> sb, space_after |-> sa, line_spacing |-> ls]

\* doc.add_table(rows, cols); autofit off; block.make_docx(table, margin)
Table(sect, page, i, rows, cols) ==
    [type |-> "table", sect |-> sect, page |-> page, block |-> i,
     rows |-> rows, cols |-> cols, autofit |-> FALSE]

\* the dummy paragraph put before a table only for a positive before_space
BeforeTable_positive(b, sect, page) ==
    IF b.before_space > 0
    THEN LET h == RoundHalf(b.before_space)
         IN  <<Filler(sect, page, Max2(h, 0), 0, h)>>
    ELSE <<>>

\* the dummy paragraph make_page puts before a table
BeforeTable(b, sect, page) ==
    IF b.before_space # 0
    THEN LET h == RoundHalf(b.before_space)
         IN  <<Filler(sect, page, Max2(h, 0), 0, h)>>
    ELSE <<>>

\* what make_page adds to the document for the i-th block
EmitBlock(b, sect, page, i) ==
    IF b.kind = "text" THEN <<TextParagraph(sect, page, i)>>
    ELSE IF b.kind = "table"
         THEN BeforeTable(b, sect, page)
              \o <<Table(sect, page, i, b.num_rows, b.num_cols)>>
         ELSE <<>>

RECURSIVE EmitBlocks_reversed(_, _, _, _)
\* the blocks walked from the last to the first
EmitBlocks_reversed(bs, sect, page, i) ==
    IF i > Len(bs) THEN <<>>
    ELSE EmitBlocks_reversed(bs, sect, page, i + 1) \o EmitBlock(bs[i], sect, page, i)

RECURSIVE EmitBlocks(_, _, _, _)
\* for block in self.blocks: the elements of blocks i, i+1, ... in order
EmitBlocks(bs, sect, page, i) ==
    IF i > Len(bs) THEN <<>>
    ELSE EmitBlock(bs[i], sect, page, i) \o EmitBlocks(bs, sect, page, i + 1)

\* the test made on the first block instead of the last
EndsWithTable_first(bs) == Len(bs) > 0 /\ bs[1].kind = "table"

\* len(self.blocks) and self.blocks[-1].is_table_block()
EndsWithTable(bs) == Len(bs) > 0 /\ bs[Len(bs)].kind = "table"

\* the final paragraph of one point after a table that ends the page
EndOfPage(bs, sect, page) ==
    IF EndsWithTable(bs) THEN <<Filler(sect, page, 0, 0, 10)>> ELSE <<>>

\* the section make_page writes to: the document's first one while the
\* document has no paragraph, a new one (a copy of the last) otherwise
OpenSection(d) ==
    IF Paragraphs(d) = {} THEN d
    ELSE [d EXCEPT !.sections = Append(@, @[Len(@)])]

SetPageSize(d, w, h) ==
    [d EXCEPT !.sections[Len(d.sections)] =
        [@ EXCEPT !.page_width = w, !.page_height = h]]

SetMargins(d, m) ==
    [d EXCEPT !.sections[Len(d.sections)] =
        [@ EXCEPT !.left_margin = m[1], !.right_margin = m[2],
                  !.top_margin = m[3], !.bottom_margin = m[4]]]

\* Layout.make_page with the margin set
make_page(d, bs, m, w, h, page) ==
    LET d1   == SetMargins(SetPageSize(OpenSection(d), w, h), m)
        sect == Len(d1.sections)
    IN  [d1 EXCEPT !.body = @ \o EmitBlocks(bs, sect, page, 1)
                              \o EndOfPage(bs, sect, page)]


\* ------------------------------------------------------------ behaviour
\* Layout.__init__ for a raw page, and an empty Document()
InitLayout(Sizes, Raws) ==
    /\ \E sz \in Sizes : width = sz[1] /\ height = sz[2]
    /\ blocks \in Raws
    /\ rects = <<>>
    /\ margin = Unset
    /\ doc = NewDocument
    /\ pc = 0
    /\ err = FALSE
    /\ last = "init"
    /\ twice = FALSE
    /\ before = NoBefore
    /\ trace = <<>>
    /\ implicit_x = <<>>
    /\ spacing_bbox = <<>>
    /\ made = <<>>

\* the page is live until it has been made into the document or a call raised
Live == ~err /\ last # "make_page"

\* Layout.__init__ for the next page, once the current one has been made
NewLayout ==
    /\ ~err /\ pc = 0 /\ last = "make_page" /\ Len(made) < MaxPages
    /\ \E sz \in DocSizes : width' = sz[1] /\ height' = sz[2]
    /\ blocks' \in DocRawBlocks
    /\ rects' = <<>>
    /\ margin' = Unset
    /\ last' = "init"
    /\ twice' = FALSE /\ before' = NoBefore
    /\ trace' = <<>> /\ implicit_x' = <<>> /\ spacing_bbox' = <<>>
    /\ UNCHANGED <<doc, pc, err, made>>

\* the rectangles of the page are added to layout.rects before it is parsed
AddRect ==
    /\ Live /\ pc = 0
    /\ last \in {"init", "add_rect"} /\ Len(rects) < MaxRects
    /\ \E i \in 1..Len(RectPool) : rects' = Append(rects, RectPool[i])
    /\ last' = "add_rect"
    /\ UNCHANGED <<width, height, blocks, margin, doc, pc, err,
                   twice, before, trace, implicit_x, spacing_bbox, made>>

\* Layout.parse is called: it is about to run its first stage
Parse ==
    /\ Live /\ pc = 0
    /\ pc' = 1
    /\ trace' = <<>>
    /\ UNCHANGED <<width, height, blocks, rects, margin, doc, err,
                   last, twice, before, implicit_x, spacing_bbox, made>>

\* Layout.clean
Clean ==
    /\ Live /\ Called("clean")
    /\ LET c == clean(blocks, rects, width, height)
       IN  blocks' = c.blocks /\ rects' = c.rects /\ margin' = c.margin
    /\ twice' = (last = "clean")
    /\ before' = [margin |-> margin, nb |-> Len(blocks), nr |-> Len(rects)]
    /\ Logged("clean")
    /\ pc' = Advance
    /\ UNCHANGED <<width, height, doc, err, implicit_x, spacing_bbox, made>>

\* Layout.parse_explicit_tables
ParseExplicitTables ==
    /\ Live /\ Called("parse_explicit_tables")
    /\ blocks' = explicit_tables(blocks, rects)
    /\ twice' = FALSE /\ before' = NoBefore
    /\ Logged("parse_explicit_tables")
    /\ pc' = Advance
    /\ UNCHANGED <<width, height, rects, margin, doc, err,
                   implicit_x, spacing_bbox, made>>

\* Layout.parse_implicit_tables: unpacking a margin of None raises
ParseImplicitTables ==
    /\ Live /\ Called("parse_implicit_tables")
    /\ IF margin = Unset
       THEN /\ err' = TRUE
            /\ UNCHANGED <<blocks, implicit_x, pc, trace, last>>
       ELSE /\ LET X0 == margin[1]
                   X1 == width - margin[2]
               IN  /\ blocks' = implicit_tables(blocks, X0, X1)
                   /\ implicit_x' = <<X0, X1>>
            /\ Logged("parse_implicit_tables")
            /\ pc' = Advance
            /\ err' = err
    /\ twice' = FALSE /\ before' = NoBefore
    /\ UNCHANGED <<width, height, rects, margin, doc, spacing_bbox, made>>

\* Layout.parse_text_format: styles the spans of the blocks
ParseTextFormat ==
    /\ Live /\ Called("parse_text_format")
    /\ twice' = FALSE /\ before' = NoBefore
    /\ Logged("parse_text_format")
    /\ pc' = Advance
    /\ UNCHANGED <<width, height, blocks, rects, margin, doc, err,
                   implicit_x, spacing_bbox, made>>

\* Layout.parse_vertical_spacing
ParseVerticalSpacing ==
    /\ Live /\ Called("parse_vertical_spacing")
    /\ blocks' = vertical_spacing(blocks, bbox_raw(margin, width, height))
    /\ spacing_bbox' = bbox_raw(margin, width, height)
    /\ twice' = FALSE /\ before' = NoBefore
    /\ Logged("parse_vertical_spacing")
    /\ pc' = Advance
    /\ UNCHANGED <<width, height, rects, margin, doc, err, implicit_x, made>>

\* Layout.make_page: the section is opened and sized before the margin is
\* unpacked, so a margin of None raises after the section was touched
MakePage ==
    /\ Live /\ pc = 0 /\ Len(made) < MaxPages
    /\ IF margin = Unset
       THEN /\ err' = TRUE
            /\ doc' = SetPageSize(OpenSection(doc), width, height)
            /\ UNCHANGED <<made, last>>
       ELSE /\ doc' = make_page(doc, blocks, margin, width, height, Len(made) + 1)
            /\ made' = Append(made,
                    [width |-> width, height |-> height, margin |-> margin,
                     blocks |-> blocks, sect |-> Len(doc'.sections)])
            /\ last' = "make_page"
            /\ err' = err
    /\ twice' = FALSE /\ before' = NoBefore
    /\ UNCHANGED <<width, height, blocks, rects, margin, pc,
                   trace, implicit_x, spacing_bbox>>

\* one page: built from a raw page of any size, given its rectangles,
\* cleaned and parsed in any sequence, then made into an empty document
Next ==
    \/ AddRect
    \/ Parse
    \/ Clean
    \/ ParseExplicitTables
    \/ ParseImplicitTables
    \/ ParseTextFormat
    \/ ParseVerticalSpacing
    \/ MakePage

Init == InitLayout(PageSizes, RawBlocks)

Spec == Init /\ [][Next]_vars

\* one document made of several pages: each page is built, cleaned or
\* parsed, and made into the document before the next page is built
NextDocument ==
    \/ NewLayout
    \/ Parse
    \/ Clean
    \/ ParseExplicitTables
    \/ ParseImplicitTables
    \/ ParseTextFormat
    \/ ParseVerticalSpacing
    \/ MakePage

InitDocument == InitLayout(DocSizes, DocRawBlocks)

SpecDocument == InitDocument /\ [][NextDocument]_vars


\* ---------------------------------------------------------- properties
\* the elements the p-th make_page call added to the document, in order
PageElems(p) == SelectSeq(doc.body, LAMBDA e : e.page = p)

IsFiller(e) == e.type = "paragraph" /\ e.block = 0

\* the elements that stand for a block of the page
Content(es) == SelectSeq(es, LAMBDA e : e.block # 0)

\* the fillers of a page that do not stand immediately before a table
Trailing(es) ==
    { k \in 1..Len(es) :
        IsFiller(es[k]) /\ (k = Len(es) \/ es[k + 1].type # "table") }

MarginSet == margin # Unset

\* C1: once clean() has run, every margin component lies in [0, oneInch]
\* (oneInch = ITP = 72 pt) and right <= left.
C1_MarginBounds ==
    MarginSet =>
        /\ \A i \in 1..4 : 0 <= margin[i] /\ margin[i] <= 72
        /\ margin[2] <= margin[1]

\* a cleaned page with content whose left margin is capped at one inch and
\* whose right margin is smaller
C1_Witness ==
    /\ MarginSet /\ blocks # <<>>
    /\ margin[1] = 72 /\ margin[2] > 0 /\ margin[2] < margin[1]

\* C2: whenever the margin is set, left + right <= width and
\* top + bottom <= height, also for an empty page and a page without size.
C2_MarginFitsPage ==
    MarginSet =>
        /\ margin[1] + margin[2] <= width
        /\ margin[3] + margin[4] <= height

\* the geometry make_page gave a section
Geometry(sec) ==
    << sec.page_width, sec.page_height, sec.left_margin, sec.right_margin,
       sec.top_margin, sec.bottom_margin >>

\* C3: after n make_page calls the document holds n sections and the i-th
\* section carries the width, height and margins of the i-th page.
C3_SectionPerPage ==
    (~err /\ Len(made) >= 1) =>
        /\ Len(doc.sections) = Len(made)
        /\ \A i \in 1..Len(made) :
              /\ i <= Len(doc.sections)
              /\ Geometry(doc.sections[i]) =
                    << made[i].width, made[i].height, made[i].margin[1],
                       made[i].margin[2], made[i].margin[3], made[i].margin[4] >>

\* C4: a page whose final block is a table ends with a filler paragraph
\* right after that table and has exactly one trailing filler; a page that
\* ends with a text block or has no block has none; a page whose only block
\* is a table with before_space = 0 is the table and one filler.
C4_TrailingFiller ==
    \A p \in 1..Len(made) :
        LET es == PageElems(p)
            bs == made[p].blocks
        IN  /\ IF bs # <<>> /\ bs[Len(bs)].kind = "table"
               THEN /\ Len(es) >= 2
                    /\ IsFiller(es[Len(es)])
                    /\ es[Len(es) - 1].type = "table"
                    /\ es[Len(es) - 1].block = Len(bs)
                    /\ Cardinality(Trailing(es)) = 1
               ELSE Trailing(es) = {}
            /\ (Len(bs) = 1 /\ bs[1].kind = "table" /\ bs[1].before_space = 0)
                  => /\ Len(es) = 2
                     /\ es[1].type = "table"
                     /\ IsFiller(es[2])

\* a made page whose only block is a table with no space before it
C4_Witness ==
    /\ Len(made) = 1
    /\ Len(made[1].blocks) = 1
    /\ made[1].blocks[1].kind = "table"
    /\ made[1].blocks[1].before_space = 0
    /\ Len(doc.body) = 2

\* C5: a table block with rows = 0 or cols = 0 gets no element in the
\* document, and every other block of the page still gets its element.
C5_EmptyTableSkipped ==
    \A p \in 1..Len(made) :
        \A i \in 1..Len(made[p].blocks) :
            LET b == made[p].blocks[i]
                emitted == { k \in 1..Len(PageElems(p)) : PageElems(p)[k].block = i }
            IN  IF b.kind = "table" /\ (b.num_rows = 0 \/ b.num_cols = 0)
                THEN emitted = {}
                ELSE emitted # {}

\* the filler right before the table of block i, if there is one
LeadingFiller(es, i) ==
    { k \in 1..Len(es) :
        IsFiller(es[k]) /\ k < Len(es)
        /\ es[k + 1].type = "table" /\ es[k + 1].block = i }

\* C6 as stated: a filler stands right before a table iff before_space > 0;
\* its before-space and line-spacing are both before_space / 2 clamped to
\* >= 0 and its after-space is zero.  (4 * tenths = 5 * quarter points.)
C6_FillerAsStated ==
    \A p \in 1..Len(made) :
        \A i \in 1..Len(made[p].blocks) :
            LET b  == made[p].blocks[i]
                es == PageElems(p)
                half == IF b.before_space > 0 THEN 5 * b.before_space ELSE 0
            IN  b.kind = "table" =>
                  /\ (LeadingFiller(es, i) # {}) <=> (b.before_space > 0)
                  /\ \A k \in LeadingFiller(es, i) :
                        /\ 4 * es[k].space_before = half
                        /\ 4 * es[k].line_spacing = half
                        /\ es[k].space_after = 0

\* t tenths of a point is q quarter points halved and rounded to one
\* decimal, a tie going to the even digit
HalfRounded(t, q) ==
    /\ 4 * t - 5 * q \in -2..2
    /\ (4 * t - 5 * q \in {-2, 2}) => t % 2 = 0

\* C6 as amended: a filler stands right before a table iff before_space is
\* not zero; its line-spacing is before_space / 2 rounded to one decimal and
\* not clamped, its before-space is that value clamped to >= 0, and its
\* after-space is zero.
C6_FillerAmended ==
    \A p \in 1..Len(made) :
        \A i \in 1..Len(made[p].blocks) :
            LET b  == made[p].blocks[i]
                es == PageElems(p)
            IN  b.kind = "table" =>
                  /\ (LeadingFiller(es, i) # {}) <=> (b.before_space # 0)
                  /\ Cardinality(LeadingFiller(es, i)) <= 1
                  /\ \A k \in LeadingFiller(es, i) :
                        /\ HalfRounded(es[k].line_spacing, b.before_space)
                        /\ es[k].space_before =
                              (IF es[k].line_spacing > 0 THEN es[k].line_spacing ELSE 0)
                        /\ es[k].space_after = 0

\* a made page with a filler of negative line spacing before a table, or
\* with a filler whose spacing had to be rounded
C6_Witness ==
    /\ Len(made) = 1
    /\ \E i \in 1..Len(made[1].blocks) :
          /\ made[1].blocks[i].kind = "table"
          /\ made[1].blocks[i].before_space = 3
          /\ \E k \in LeadingFiller(PageElems(1), i) :
                PageElems(1)[k].line_spacing = 4
    /\ \E i \in 1..Len(made[1].blocks) :
          /\ made[1].blocks[i].kind = "table"
          /\ made[1].blocks[i].before_space < 0
          /\ \E k \in LeadingFiller(PageElems(1), i) :
                PageElems(1)[k].line_spacing < 0 /\ PageElems(1)[k].space_before = 0

C7_Order ==
    << "clean", "parse_explicit_tables", "parse_implicit_tables",
       "parse_text_format", "parse_vertical_spacing" >>

\* C7: a run of parse() executes clean, parse_explicit_tables,
\* parse_implicit_tables, parse_text_format, parse_vertical_spacing once each
\* in this order, so the margin is set when parse_implicit_tables takes its
\* bounds (left, width - right) and when parse_vertical_spacing takes the
\* content box (left, top, width - right, height - bottom).
C7_ParseOrder ==
    /\ pc >= 1 => (~err /\ pc <= 5 /\ trace = SubSeq(C7_Order, 1, pc - 1))
    /\ pc >= 2 => MarginSet
    /\ pc >= 4 => implicit_x = <<margin[1], width - margin[2]>>
    /\ (pc = 0 /\ last = "parse") =>
          /\ trace = C7_Order /\ MarginSet
          /\ implicit_x = <<margin[1], width - margin[2]>>
          /\ spacing_bbox = << margin[1], margin[3],
                               width - margin[2], height - margin[4] >>

\* parse() has run to its end on a page with blocks that had no margin
C7_Witness ==
    /\ pc = 0 /\ last = "parse" /\ blocks # <<>> /\ rects # <<>>
    /\ Len(trace) = 5

\* C8: a page with no blocks and no shapes gets the margin (72, 72, 72, 72)
\* from clean(), no error is raised, and make_page adds nothing for it.
C8_EmptyPage ==
    /\ (MarginSet /\ blocks = <<>> /\ rects = <<>>) =>
            (margin = <<72, 72, 72, 72>> /\ ~err)
    /\ \A p \in 1..Len(made) :
            made[p].blocks = <<>> => (PageElems(p) = <<>> /\ ~err)

\* an empty page of no size, cleaned and made
C8_Witness ==
    /\ Len(made) = 1 /\ made[1].blocks = <<>> /\ rects = <<>>
    /\ width = 0 /\ margin = <<72, 72, 72, 72>> /\ doc.body = <<>>

\* C9: a clean() right after a clean() leaves the margin, the number of
\* blocks and the number of shapes as the first one left them.
C9_CleanTwice ==
    twice =>
        /\ margin = before.margin
        /\ Len(blocks) = before.nb
        /\ Len(rects) = before.nr

\* two cleans in a row on a page that has blocks and a rectangle
C9_Witness == twice /\ last = "clean" /\ blocks # <<>> /\ rects # <<>>

\* C10: the elements that stand for blocks are one per block, in the order
\* of the blocks, a paragraph for a text block and a table for a table
\* block; two text blocks give two paragraphs and no table.
C10_ReadingOrder ==
    \A p \in 1..Len(made) :
        LET es == PageElems(p)
            bs == made[p].blocks
            c  == Content(es)
        IN  /\ Len(c) = Len(bs)
            /\ \A i \in 1..Len(c) :
                  /\ c[i].block = i
                  /\ c[i].type = (IF bs[i].kind = "text" THEN "paragraph" ELSE "table")
            /\ (Len(bs) = 2 /\ bs[1].kind = "text" /\ bs[2].kind = "text")
                  => (Len(es) = 2 /\ es[1].type = "paragraph" /\ es[2].type = "paragraph")

\* a made page of a text block followed by a table block
C10_Witness ==
    /\ Len(made) = 1 /\ Len(made[1].blocks) = 2
    /\ made[1].blocks[1].kind = "text" /\ made[1].blocks[2].kind = "table"
    /\ Len(Content(PageElems(1))) = 2

====
